---- MODULE Spec2Model ----
\* Model of the Least Squares Monte Carlo valuation of src/old/main.go
\* (ProjectProcess.Simulate, ProjectProcess.Lsm, basis, sqr) together with the
\* package-level random generator that main seeds.
\*
\* Numbers.  The program computes in float64.  The model computes in exact
\* rational arithmetic: a number is a pair <<n, d>> with d > 0 and gcd(n, d) = 1.
\* +, -, * and comparisons are exact; the two transcendental primitives are
\* rounded to a grid, as math.Exp and math.Sqrt round to the float64 grid:
\* Exp rounds its argument down to an integer and returns that power of 2 (rates
\* and exponents are measured in units of ln 2), Sqrt returns the integer square
\* root of the integer part.  Floating-point rounding of +, -, * is not modelled.
\* NaN is the pair <<0, 0>>; it arises only as a fitted value of a rank-deficient
\* regression.
EXTENDS Integers, Sequences, FiniteSets, TLC

(***************************************************************************)
(* Bounds of the model                                                     *)
(***************************************************************************)
MaxRuns == 2
MaxPatentLength == 3
MaxSeed == 26

(***************************************************************************)
(* Rational arithmetic                                                     *)
(***************************************************************************)
Abs(i) == IF i < 0 THEN -i ELSE i

RECURSIVE GCD(_, _)
GCD(a, b) == IF b = 0 THEN a ELSE GCD(b, a % b)

Norm(n, d) ==
    LET g == GCD(Abs(n), Abs(d))
        s == IF d < 0 THEN -1 ELSE 1
    IN  <<(s * n) \div g, (s * d) \div g>>

R(i) == <<i, 1>>
Zero == R(0)
Half == <<1, 2>>
NaN == <<0, 0>>
IsNaN(a) == a[2] = 0

RAdd(a, b) ==
    IF IsNaN(a) \/ IsNaN(b) THEN NaN
    ELSE LET g == GCD(a[2], b[2])
         IN  Norm(a[1] * (b[2] \div g) + b[1] * (a[2] \div g), (a[2] \div g) * b[2])

RNeg(a) == <<-a[1], a[2]>>

RSub(a, b) == RAdd(a, RNeg(b))

RMul(a, b) ==
    IF IsNaN(a) \/ IsNaN(b) THEN NaN
    ELSE LET g1 == GCD(Abs(a[1]), b[2])
             g2 == GCD(Abs(b[1]), a[2])
         IN  Norm((a[1] \div g1) * (b[1] \div g2), (a[2] \div g2) * (b[2] \div g1))

RDivInt(a, k) == RMul(a, <<1, k>>)

\* comparisons with 0; every comparison with NaN is false
RPos(a) == ~IsNaN(a) /\ a[1] > 0
RNegative(a) == ~IsNaN(a) /\ a[1] < 0
RIsZero(a) == ~IsNaN(a) /\ a[1] = 0

\* floor of a rational (\div rounds towards minus infinity for a positive divisor)
RFloor(a) == a[1] \div a[2]

RECURSIVE Pow2(_)
Pow2(k) == IF k = 0 THEN 1 ELSE 2 * Pow2(k - 1)

RECURSIVE ISqrtFrom(_, _)
ISqrtFrom(n, k) == IF (k + 1) * (k + 1) > n THEN k ELSE ISqrtFrom(n, k + 1)

ISqrt(n) == ISqrtFrom(n, 0)

(***************************************************************************)
(* Math primitives (local aliases exp, sqrt and helper sqr of main.go)     *)
(***************************************************************************)
\* math.Exp: 2^floor(x), exponents in units of ln 2
Exp(x) ==
    LET k == RFloor(x)
    IN  IF k >= 0 THEN <<Pow2(k), 1>> ELSE <<1, Pow2(-k)>>

\* math.Sqrt on a non-negative argument: integer square root of the integer part
Sqrt(x) == R(ISqrt(RFloor(x)))

\* square the input
sqr(x) == RMul(x, x)

\* a bug that swaps two monomials of the basis
basisSwapped(x, y) ==
    <<R(1), x, y, RMul(x, y), sqr(y), sqr(x), RMul(sqr(x), y), RMul(x, sqr(y)),
      sqr(RMul(x, y))>>

\* polynomial basis to approximate the value function
basis(x, y) ==
    <<R(1), x, y, RMul(x, y), sqr(x), sqr(y), RMul(sqr(x), y), RMul(x, sqr(y)),
      sqr(RMul(x, y))>>

BasisSize == 9

(***************************************************************************)
(* The random source: golang.org/x/exp/rand's package-level generator.     *)
(* Its state is a number below 27 advanced by a full-period linear         *)
(* congruence; NormFloat64 returns the high ternary digit of the state as  *)
(* a shock in {-1, 0, 1} and advances the state.                           *)
(***************************************************************************)
NormFloat64(s) == (s \div 9) - 1

Advance(s) == (7 * s + 5) % 27

\* a Seed that leaves the generator where it was
SeedIgnored(s, old) == old

\* rand.Seed(s): the generator state the seed determines
SeedGenerator(s, old) == s % 27

(***************************************************************************)
(* Parameters: the fields of ProjectProcess                                *)
(***************************************************************************)
AnnualCashFlows == {3}
Drifts == {1}
CashVolatilities == {1}
TerminalMultipliers == {-1, 5}
RiskPremiums == {0}
Investments == {2}
TotalExpectedCosts == {2, 4}
CostVolatilities == {1}
FailureProbs == {1}
Correlations == {-1, 0}
RiskFreeRates == {0, 1}
TimeSteps == {-1, 1, 2}
PatentLengths == 0 .. MaxPatentLength
RunCounts == 0 .. MaxRuns
PolynomialOrders == {8, 9}
Seeds == 0 .. MaxSeed

ProjectProcess ==
    [AnnualCashFlow : AnnualCashFlows, Drift : Drifts, Volatility : CashVolatilities,
     TerminalMultiplier : TerminalMultipliers, RiskPremium : RiskPremiums,
     Investment : Investments, TotalExpectedCost : TotalExpectedCosts,
     CostVolatility : CostVolatilities, FailureProb : FailureProbs,
     Correlation : Correlations, RiskFreeRate : RiskFreeRates,
     TimeStep : TimeSteps, PatentLength : PatentLengths, Runs : RunCounts,
     PolynomialOrder : PolynomialOrders]

VARIABLES
    pp,              \* the receiver of Simulate and Lsm
    seed,            \* the argument of rand.Seed
    maxCalls,        \* how many times the driver calls Lsm
    rng,             \* state of the package-level generator
    fresh,           \* TRUE from rand.Seed until the next draw
    pc,              \* position of the program
    calls,           \* completed calls of Lsm
    startFresh,      \* per started call: was it entered right after rand.Seed
    outputs,         \* per completed call: the value Lsm returned
    numberOfPeriods, \* local of Simulate / Lsm
    run, period,     \* loop counters
    netCash, cost,   \* Simulate's matrices (cashMatrix, costMatrix in Lsm)
    costEps, cashEps,\* the shocks drawn for each cell
    valueArray,      \* Lsm's value function iteration matrix
    nextVal, basisMatrix, estVal, \* locals of one value iteration
    writes,          \* number of valueArray.Set calls per cell
    colOrder,        \* columns of valueArray in the order their loops finished
    regressions,     \* SolveVec calls made by the current call of Lsm
    solver           \* how the linked solver treats a rank-deficient system

vars ==
    <<pp, seed, maxCalls, rng, fresh, pc, calls, startFresh, outputs,
      numberOfPeriods, run, period, netCash, cost, costEps, cashEps, valueArray,
      nextVal, basisMatrix, estVal, writes, colOrder, regressions, solver>>

(***************************************************************************)
(* Pure parts of Simulate and Lsm                                          *)
(***************************************************************************)
\* int(float64(pp.PatentLength) / pp.TimeStep): the conversion truncates towards 0
NumberOfPeriods(p) ==
    LET q == Abs(p.PatentLength) \div Abs(p.TimeStep)
    IN  IF (p.PatentLength < 0) = (p.TimeStep < 0) THEN q ELSE -q

\* mat.NewDense(r, c, nil) panics unless both dimensions are positive
NewDensePanics(r, c) == r <= 0 \/ c <= 0

\* mat.NewDense(r, c, nil): an r x c matrix of zeros
NewDense(r, c) == [i \in 0 .. r - 1 |-> [j \in 0 .. c - 1 |-> Zero]]

Set(m, i, j, v) == [m EXCEPT ![i][j] = v]

\* Risk adjusted cash flow drift rate
adjCashDrift(p) == R(p.Drift - p.RiskPremium)

\* correlate random variables
CashShock(p, cEps, z) ==
    RAdd(RMul(R(p.Correlation), R(cEps)),
         RMul(Sqrt(RSub(R(1), sqr(R(p.Correlation)))), R(z)))

\* cash flow simulation
NextCash(p, prevCash, eps) ==
    RMul(prevCash,
         Exp(RAdd(RMul(RSub(adjCashDrift(p), RMul(Half, sqr(R(p.Volatility)))),
                       R(p.TimeStep)),
                  RMul(RMul(R(p.Volatility), Sqrt(R(p.TimeStep))), eps))))

\* the cost update before the floor at zero
CostUpdate(p, prevCost, eps) ==
    RAdd(RSub(prevCost, R(p.Investment * p.TimeStep)),
         RMul(RMul(R(p.CostVolatility),
                   Sqrt(RMul(R(p.Investment * p.TimeStep), prevCost))),
              R(eps)))

\* a bug that drops the guard on a zero previous cost and the floor at zero
NextCostUnguarded(p, prevCost, eps) == CostUpdate(p, prevCost, eps)

\* cost simulation: only update costs if not zero
NextCost(p, prevCost, eps) ==
    IF ~RIsZero(prevCost)
    THEN LET c == CostUpdate(p, prevCost, eps)
         IN  IF RNegative(c) THEN Zero ELSE c
    ELSE Zero

\* a bug that sets the terminal value whatever the remaining cost
TerminalValueAlways(p, costLast, cashLast, old) ==
    RMul(R(p.TerminalMultiplier), cashLast)

\* Set the Terminal Value: if cost is positive then still investing and no value
TerminalValue(p, costLast, cashLast, old) ==
    IF RIsZero(costLast) THEN RMul(R(p.TerminalMultiplier), cashLast) ELSE old

\* Discount rates depending on the phase of the project
cashDiscRate(p) == Exp(R(-1 * p.RiskFreeRate * p.TimeStep))

investDiscRate(p) == Exp(R(-1 * (p.RiskFreeRate + p.FailureProb) * p.TimeStep))

\* nextVal.ScaleVec(investDiscRate, valueArray.ColView(period+1))
ScaleVec(a, m, col, n) == [i \in 0 .. n - 1 |-> RMul(a, m[i][col])]

RECURSIVE SumOver(_, _)
SumOver(f, S) ==
    IF S = {} THEN Zero
    ELSE LET i == CHOOSE j \in S : TRUE IN RAdd(f[i], SumOver(f, S \ {i}))

\* what the solver leaves in the fitted values of a rank-deficient regression
Solvers == {"projection", "nan"}

RankDeficient(B, n) == \E i \in 0 .. n - 1 : \E j \in 0 .. n - 1 : i # j /\ B[i] = B[j]

\* coefficients.SolveVec(basisMatrix, nextVal); estVal.MulVec(basisMatrix, coefficients).
\* The fitted values of a least-squares solution are the projection of nextVal on the
\* column space of basisMatrix, whatever solution the solver picks.  With at most
\* three runs the rows of distinct states are linearly independent, so the projection
\* is, for each run, the mean of nextVal over the runs whose state equals its own.
\* When two runs share a state the system is rank-deficient: SolveVec reports a
\* Condition error, which Lsm drops, and the coefficients are whatever the
\* factorization left: the projection all the same (solver "projection") or not a
\* number (solver "nan").
FittedValues(how, B, y, n) ==
    IF RankDeficient(B, n) /\ how = "nan"
    THEN [i \in 0 .. n - 1 |-> NaN]
    ELSE [i \in 0 .. n - 1 |->
             LET same == {j \in 0 .. n - 1 : B[j] = B[i]}
             IN  RDivInt(SumOver(y, same), Cardinality(same))]

\* Only invest if project value is positive after investment
Invest(p, est) == RPos(RSub(est, R(p.Investment * p.TimeStep)))

\* a bug that books the fitted value instead of the realized one
InvestValueFitted(p, nextV, est) == RSub(est, R(p.Investment * p.TimeStep))

\* Investing value: nextVal.AtVec(run) - pp.Investment*pp.TimeStep
InvestValue(p, nextV, est) == RSub(nextV, R(p.Investment * p.TimeStep))

\* a bug that discounts the sales phase with the investment discount rate
SalesValueInvestRate(p, cash, valNext) ==
    RAdd(RMul(cash, R(p.TimeStep)), RMul(investDiscRate(p), valNext))

\* a bug that carries the next value over without discounting it
SalesValueUndiscounted(p, cash, valNext) == RAdd(RMul(cash, R(p.TimeStep)), valNext)

\* Post investment sales cash flow
SalesValue(p, cash, valNext) ==
    RAdd(RMul(cash, R(p.TimeStep)), RMul(cashDiscRate(p), valNext))

\* a bug that discounts the initial period with the cash rate alone
FinalDiscountCashOnly(p) == cashDiscRate(p)

\* Discount one last time to initial period
FinalDiscount(p) == RMul(cashDiscRate(p), investDiscRate(p))

\* stat.Mean(initialValue, nil)
Mean(f, n) == RDivInt(SumOver(f, 0 .. n - 1), n)

\* a bug that steps the value iteration over every other period
PreviousPeriodSkipping(q) == q - 2

\* period-- of the value iteration
PreviousPeriod(q) == q - 1

(***************************************************************************)
(* Initial state: the program before main runs                             *)
(***************************************************************************)
Locals0 ==
    /\ numberOfPeriods = 0
    /\ run = 0
    /\ period = 0
    /\ netCash = <<>>
    /\ cost = <<>>
    /\ costEps = <<>>
    /\ cashEps = <<>>
    /\ valueArray = <<>>
    /\ nextVal = <<>>
    /\ basisMatrix = <<>>
    /\ estVal = <<>>
    /\ writes = <<>>
    /\ colOrder = <<>>
    /\ regressions = 0

\* main builds the process with PolynomialOrder 9
Init ==
    /\ pp \in {p \in ProjectProcess : p.PolynomialOrder = BasisSize}
    /\ seed \in Seeds
    /\ maxCalls = 1
    /\ rng = 1
    /\ fresh = FALSE
    /\ pc = "main"
    /\ calls = 0
    /\ startFresh = <<>>
    /\ outputs = <<>>
    /\ solver = "unknown"
    /\ Locals0

(***************************************************************************)
(* main: rand.Seed                                                         *)
(***************************************************************************)
Seed ==
    /\ pc \in {"main", "returned"}
    /\ calls < maxCalls
    /\ rng' = SeedGenerator(seed, rng)
    /\ fresh' = TRUE
    /\ pc' = "ready"
    /\ UNCHANGED <<solver, pp, seed, maxCalls, calls, startFresh, outputs, numberOfPeriods,
                   run, period, netCash, cost, costEps, cashEps, valueArray, nextVal,
                   basisMatrix, estVal, writes, colOrder, regressions>>

(***************************************************************************)
(* Lsm entry: number of periods, then Simulate's entry up to the matrices  *)
(***************************************************************************)
CallLsm ==
    /\ pc \in {"ready", "returned"}
    /\ calls < maxCalls
    /\ startFresh' = Append(startFresh, fresh)
    /\ numberOfPeriods' = NumberOfPeriods(pp)
    /\ IF NewDensePanics(pp.Runs, numberOfPeriods')
       THEN /\ pc' = "panic"
            /\ netCash' = <<>>
            /\ cost' = <<>>
       ELSE /\ pc' = "simulate"
            /\ netCash' = NewDense(pp.Runs, numberOfPeriods')
            /\ cost' = NewDense(pp.Runs, numberOfPeriods')
    /\ run' = 0
    /\ period' = 0
    /\ costEps' = <<>>
    /\ cashEps' = <<>>
    /\ valueArray' = <<>>
    /\ nextVal' = <<>>
    /\ basisMatrix' = <<>>
    /\ estVal' = <<>>
    /\ writes' = <<>>
    /\ colOrder' = <<>>
    /\ regressions' = 0
    /\ UNCHANGED <<solver, pp, seed, maxCalls, rng, fresh, calls, outputs>>

(***************************************************************************)
(* Simulate: one iteration of the inner loop                               *)
(***************************************************************************)
SimulateStep ==
    /\ pc = "simulate"
    /\ LET cEps == NormFloat64(rng)
           z == NormFloat64(Advance(rng))
           eps == CashShock(pp, cEps, z)
           prevCash == IF period # 0 THEN netCash[run][period - 1]
                       ELSE R(pp.AnnualCashFlow)
           prevCost == IF period # 0 THEN cost[run][period - 1]
                       ELSE R(pp.TotalExpectedCost)
       IN  /\ rng' = Advance(Advance(rng))
           /\ netCash' = Set(netCash, run, period, NextCash(pp, prevCash, eps))
           /\ cost' = Set(cost, run, period, NextCost(pp, prevCost, cEps))
           /\ costEps' = costEps @@ (<<run, period>> :> cEps)
           /\ cashEps' = cashEps @@ (<<run, period>> :> eps)
    /\ fresh' = FALSE
    /\ IF period + 1 < numberOfPeriods
       THEN /\ period' = period + 1
            /\ UNCHANGED <<run, pc, valueArray, writes>>
       ELSE IF run + 1 < pp.Runs
       THEN /\ period' = 0
            /\ run' = run + 1
            /\ UNCHANGED <<pc, valueArray, writes>>
       ELSE /\ period' = 0
            /\ run' = 0
            /\ pc' = "terminal"
            /\ valueArray' = NewDense(pp.Runs, numberOfPeriods)
            /\ writes' = [i \in 0 .. pp.Runs - 1 |->
                             [j \in 0 .. numberOfPeriods - 1 |-> 0]]
    /\ UNCHANGED <<solver, pp, seed, maxCalls, calls, startFresh, outputs, numberOfPeriods,
                   nextVal, basisMatrix, estVal, colOrder, regressions>>

lastPeriod == numberOfPeriods - 1

(***************************************************************************)
(* Lsm: one iteration of the terminal value loop                           *)
(***************************************************************************)
TerminalStep ==
    /\ pc = "terminal"
    /\ valueArray' = Set(valueArray, run, lastPeriod,
                         TerminalValue(pp, cost[run][lastPeriod],
                                       netCash[run][lastPeriod],
                                       valueArray[run][lastPeriod]))
    /\ writes' = IF RIsZero(cost[run][lastPeriod])
                 THEN [writes EXCEPT ![run][lastPeriod] = @ + 1]
                 ELSE writes
    /\ IF run + 1 < pp.Runs
       THEN /\ run' = run + 1
            /\ UNCHANGED <<pc, period, colOrder>>
       ELSE /\ run' = 0
            /\ colOrder' = Append(colOrder, lastPeriod)
            /\ period' = lastPeriod - 1
            /\ pc' = IF lastPeriod - 1 >= 0 THEN "regress" ELSE "aggregate"
    /\ UNCHANGED <<solver, pp, seed, maxCalls, rng, fresh, calls, startFresh, outputs,
                   numberOfPeriods, netCash, cost, costEps, cashEps, nextVal,
                   basisMatrix, estVal, regressions>>

(***************************************************************************)
(* Lsm: the regression of one value iteration                              *)
(***************************************************************************)
Regress ==
    /\ pc = "regress"
    /\ nextVal' = ScaleVec(investDiscRate(pp), valueArray, period + 1, pp.Runs)
    /\ basisMatrix' = [i \in 0 .. pp.Runs - 1 |->
                          basis(cost[i][period], netCash[i][period])]
    /\ IF solver = "unknown" /\ RankDeficient(basisMatrix', pp.Runs)
       THEN solver' \in Solvers
       ELSE solver' = solver
    /\ estVal' = FittedValues(solver', basisMatrix', nextVal', pp.Runs)
    /\ regressions' = regressions + 1
    /\ run' = 0
    /\ pc' = "decide"
    /\ UNCHANGED <<pp, seed, maxCalls, rng, fresh, calls, startFresh, outputs,
                   numberOfPeriods, period, netCash, cost, costEps, cashEps,
                   valueArray, writes, colOrder>>

(***************************************************************************)
(* Lsm: one iteration of the loop that determines the value                *)
(***************************************************************************)
DecideStep ==
    /\ pc = "decide"
    /\ IF ~RIsZero(cost[run][period])
       THEN IF Invest(pp, estVal[run])
            THEN /\ valueArray' = Set(valueArray, run, period,
                                      InvestValue(pp, nextVal[run], estVal[run]))
                 /\ writes' = [writes EXCEPT ![run][period] = @ + 1]
            ELSE UNCHANGED <<valueArray, writes>>
       ELSE /\ valueArray' = Set(valueArray, run, period,
                                 SalesValue(pp, netCash[run][period],
                                            valueArray[run][period + 1]))
            /\ writes' = [writes EXCEPT ![run][period] = @ + 1]
    /\ IF run + 1 < pp.Runs
       THEN /\ run' = run + 1
            /\ UNCHANGED <<pc, period, colOrder>>
       ELSE /\ run' = 0
            /\ colOrder' = Append(colOrder, period)
            /\ period' = PreviousPeriod(period)
            /\ pc' = IF period' >= 0 THEN "regress" ELSE "aggregate"
    /\ UNCHANGED <<solver, pp, seed, maxCalls, rng, fresh, calls, startFresh, outputs,
                   numberOfPeriods, netCash, cost, costEps, cashEps, nextVal,
                   basisMatrix, estVal, regressions>>

\* initialValue: column 0 of valueArray, scaled
initialValue == [i \in 0 .. pp.Runs - 1 |-> RMul(FinalDiscount(pp), valueArray[i][0])]

(***************************************************************************)
(* Lsm: discount to the initial period, average, return                    *)
(***************************************************************************)
Aggregate ==
    /\ pc = "aggregate"
    /\ outputs' = Append(outputs, Mean(initialValue, pp.Runs))
    /\ calls' = calls + 1
    /\ pc' = "returned"
    /\ UNCHANGED <<solver, pp, seed, maxCalls, rng, fresh, startFresh, numberOfPeriods, run,
                   period, netCash, cost, costEps, cashEps, valueArray, nextVal,
                   basisMatrix, estVal, writes, colOrder, regressions>>

Next ==
    \/ Seed
    \/ CallLsm
    \/ SimulateStep
    \/ TerminalStep
    \/ Regress
    \/ DecideStep
    \/ Aggregate

Spec == Init /\ [][Next]_vars

(***************************************************************************)
(* Properties                                                              *)
(***************************************************************************)
Runs == 0 .. pp.Runs - 1
Periods == 0 .. numberOfPeriods - 1
Simulated == DOMAIN cashEps

\* the cash recursion of the investing phase, written out
CashRecursion(prev, eps) ==
    LET mu == RSub(R(pp.Drift - pp.RiskPremium),
                   RMul(<<1, 2>>, RMul(R(pp.Volatility), R(pp.Volatility))))
        e == RAdd(RMul(mu, R(pp.TimeStep)),
                  RMul(RMul(R(pp.Volatility), Sqrt(R(pp.TimeStep))), eps))
    IN  RMul(prev, Exp(e))

\* C1: in Simulate, once the remaining cost of a run is 0 it is 0 in every later
\* period of that run, whatever shocks are drawn, while the net cash of every period
\* is obtained from the previous period's by the same cash recursion.
C1_ZeroCostAbsorbing ==
    \A c \in Simulated :
        LET r == c[1]
            u == c[2]
        IN  /\ \A t \in 0 .. u - 1 : RIsZero(cost[r][t]) => cost[r][u] = Zero
            /\ netCash[r][u] =
                   CashRecursion(IF u = 0 THEN R(pp.AnnualCashFlow)
                                 ELSE netCash[r][u - 1], cashEps[c])

\* a run whose cost reached 0 after the first period, and then drew a positive cost
\* shock while its cash changed
C1_Witness ==
    \E c \in Simulated :
        LET r == c[1]
            u == c[2]
        IN  /\ u >= 2
            /\ ~RIsZero(cost[r][u - 2])
            /\ RIsZero(cost[r][u - 1])
            /\ costEps[c] = 1
            /\ netCash[r][u] # netCash[r][u - 1]

ValueSet == pc \in {"regress", "decide", "aggregate", "returned"}

\* C4: after the terminal loop, the last column of valueArray holds
\* TerminalMultiplier * netCash where the remaining cost is 0 and 0 where it is
\* positive.
C4_TerminalValue ==
    \A r \in Runs :
        (ValueSet \/ (pc = "terminal" /\ r < run)) =>
            /\ RIsZero(cost[r][lastPeriod]) =>
                   valueArray[r][lastPeriod] =
                       RMul(R(pp.TerminalMultiplier), netCash[r][lastPeriod])
            /\ RPos(cost[r][lastPeriod]) => valueArray[r][lastPeriod] = Zero

\* the terminal loop finished with a completed run and a run still investing
C4_Witness ==
    /\ ValueSet
    /\ \E r \in Runs : RIsZero(cost[r][lastPeriod]) /\ ~RIsZero(valueArray[r][lastPeriod])
    /\ \E r \in Runs : RPos(cost[r][lastPeriod]) /\ ~RIsZero(netCash[r][lastPeriod])

\* the nine monomials of (x, y) in the documented order
Monomials(x, y) ==
    [k \in 1 .. 9 |->
        CASE k = 1 -> R(1)
          [] k = 2 -> x
          [] k = 3 -> y
          [] k = 4 -> RMul(x, y)
          [] k = 5 -> RMul(x, x)
          [] k = 6 -> RMul(y, y)
          [] k = 7 -> RMul(RMul(x, x), y)
          [] k = 8 -> RMul(x, RMul(y, y))
          [] k = 9 -> RMul(RMul(x, y), RMul(x, y))]

\* C8: every row of the basis matrix is [1, cost, cash, cost*cash, cost^2, cash^2,
\* cost^2*cash, cost*cash^2, (cost*cash)^2] of that run's state, and the row of
\* (2, 3) is [1, 2, 3, 6, 4, 9, 12, 18, 36].
C8_BasisRow ==
    pc = "decide" =>
        \A r \in Runs :
            /\ Len(basisMatrix[r]) = BasisSize
            /\ basisMatrix[r] = Monomials(cost[r][period], netCash[r][period])
            /\ (cost[r][period] = R(2) /\ netCash[r][period] = R(3)) =>
                   basisMatrix[r] = <<R(1), R(2), R(3), R(6), R(4), R(9), R(12),
                                      R(18), R(36)>>

\* a regression whose basis matrix has the row of cost 2 and cash 3
C8_Witness ==
    /\ pc = "decide"
    /\ \E r \in Runs : cost[r][period] = R(2) /\ netCash[r][period] = R(3)

Outlay == R(pp.Investment * pp.TimeStep)

\* C2: the value iteration, at a run still investing in a period before the last,
\* sets valueArray[run, period] to nextVal[run] - Investment*TimeStep, with
\* nextVal[run] = investDiscRate * valueArray[run, period+1], exactly when
\* estVal[run] - Investment*TimeStep > 0, and otherwise leaves it 0.
C2_InvestingValue ==
    [][(pc = "decide" /\ ~RIsZero(cost[run][period])) =>
          /\ nextVal[run] = RMul(investDiscRate(pp), valueArray[run][period + 1])
          /\ valueArray'[run][period] =
                 IF RPos(RSub(estVal[run], Outlay))
                 THEN RSub(nextVal[run], Outlay)
                 ELSE Zero]_vars

\* the run just decided was investing, its fitted value differs from its realized
\* one, and the investment was made
C2_Witness ==
    /\ pc = "decide"
    /\ run > 0
    /\ ~RIsZero(cost[run - 1][period])
    /\ estVal[run - 1] # nextVal[run - 1]
    /\ RPos(RSub(estVal[run - 1], Outlay))
    /\ valueArray[run - 1][period] = RSub(nextVal[run - 1], Outlay)
    /\ valueArray[run - 1][period] # RSub(estVal[run - 1], Outlay)

\* C3: the value iteration, at a run whose remaining cost is 0 in a period before the
\* last, sets valueArray[run, period] to
\* netCash[run, period]*TimeStep + cashDiscRate*valueArray[run, period+1].
C3_SalesValue ==
    [][(pc = "decide" /\ RIsZero(cost[run][period])) =>
          valueArray'[run][period] =
              RAdd(RMul(netCash[run][period], R(pp.TimeStep)),
                   RMul(cashDiscRate(pp), valueArray[run][period + 1]))]_vars

\* the run just decided had completed its investment, with a fitted value and an
\* investment discount rate that would have given another value
C3_Witness ==
    /\ pc = "decide"
    /\ run > 0
    /\ RIsZero(cost[run - 1][period])
    /\ ~RIsZero(valueArray[run - 1][period + 1])
    /\ investDiscRate(pp) # cashDiscRate(pp)
    /\ estVal[run - 1] # valueArray[run - 1][period]
    /\ valueArray[run - 1][period] =
           RAdd(RMul(netCash[run - 1][period], R(pp.TimeStep)),
                RMul(cashDiscRate(pp), valueArray[run - 1][period + 1]))

\* the terminal payoff of a run
TerminalPayoff(r) ==
    IF RIsZero(cost[r][lastPeriod])
    THEN RMul(R(pp.TerminalMultiplier), netCash[r][lastPeriod])
    ELSE Zero

\* C7: with a single period Lsm performs no regression step, and returns the mean
\* over the runs of the terminal payoffs, discounted once by
\* cashDiscRate * investDiscRate.
C7_SinglePeriod ==
    (numberOfPeriods = 1 /\ pc # "panic") =>
        /\ pc \notin {"regress", "decide"}
        /\ regressions = 0
        /\ pc = "returned" =>
               outputs[Len(outputs)] =
                   RDivInt(RMul(RMul(cashDiscRate(pp), investDiscRate(pp)),
                                SumOver([r \in Runs |-> TerminalPayoff(r)], Runs)),
                           pp.Runs)

\* a single-period valuation returned, with a completed run and a run still investing
C7_Witness ==
    /\ numberOfPeriods = 1
    /\ pc = "returned"
    /\ ~RIsZero(outputs[Len(outputs)])
    /\ \E r \in Runs : RIsZero(cost[r][0])
    /\ \E r \in Runs : RPos(cost[r][0])

ColumnsDone == {colOrder[i] : i \in 1 .. Len(colOrder)}

\* C9: the terminal column of valueArray is completed first and the others in
\* strictly decreasing order; a column is read (by ScaleVec, by the sales value, by
\* the final mat.Col) only after its loop has finished, a finished column is never
\* written again, and every cell is written at most once.
C9_BackwardDependency ==
    /\ [](/\ \A i \in 1 .. Len(colOrder) : colOrder[i] = lastPeriod - (i - 1)
          /\ pc \in {"regress", "decide"} =>
                 (period + 1 \in ColumnsDone /\ period \notin ColumnsDone)
          /\ pc = "aggregate" => 0 \in ColumnsDone
          /\ writes # <<>> => \A r \in Runs : \A t \in Periods : writes[r][t] <= 1)
    /\ [][(pc \in {"regress", "decide", "aggregate"}) =>
             (\A q \in ColumnsDone : \A r \in Runs :
                 (valueArray'[r][q] = valueArray[r][q] /\ writes'[r][q] = writes[r][q]))
         ]_vars

\* a three-period valuation reached the final read with every column finished, one
\* cell written and one cell never written
C9_Witness ==
    /\ pc = "aggregate"
    /\ numberOfPeriods = 3
    /\ ColumnsDone = Periods
    /\ \E r \in Runs : writes[r][0] = 1
    /\ \E r \in Runs : writes[r][0] = 0

RECURSIVE RPow(_, _)
RPow(a, k) == IF k = 0 THEN R(1) ELSE RMul(a, RPow(a, k - 1))

RECURSIVE CashSum(_, _, _)
\* sum over s in from .. lastPeriod-1 of cashDiscRate^(s-t) * netCash[r][s] * TimeStep
CashSum(r, t, from) ==
    IF from >= lastPeriod THEN Zero
    ELSE RAdd(RMul(RPow(cashDiscRate(pp), from - t),
                   RMul(netCash[r][from], R(pp.TimeStep))),
              CashSum(r, t, from + 1))

DiscountedCash(r, t) ==
    RAdd(CashSum(r, t, t),
         RMul(RPow(cashDiscRate(pp), lastPeriod - t),
              RMul(R(pp.TerminalMultiplier), netCash[r][lastPeriod])))

\* C10: once a column is finished, the value of a run whose remaining cost is 0 there
\* is the discounted sum of its cash flows and terminal value at cashDiscRate, and it
\* is not negative when TerminalMultiplier and the cash flows are not negative.
C10_CompletedRunValue ==
    \A t \in ColumnsDone : \A r \in Runs :
        RIsZero(cost[r][t]) =>
            /\ valueArray[r][t] = DiscountedCash(r, t)
            /\ (pp.TerminalMultiplier >= 0
                /\ \A s \in t .. lastPeriod : ~RNegative(netCash[r][s])) =>
                   ~RNegative(valueArray[r][t])

\* a three-period valuation finished with a run completed from the first period on,
\* discounted at a cash rate below 1 and different from the investment rate
C10_Witness ==
    /\ pc = "returned"
    /\ numberOfPeriods = 3
    /\ pp.TimeStep = 1
    /\ cashDiscRate(pp) # R(1)
    /\ \E r \in Runs : RIsZero(cost[r][0]) /\ RPos(valueArray[r][0])
    /\ \E r \in Runs : ~RIsZero(cost[r][0])

\* the parameters section 7 of the specification calls valid
ValidParameters ==
    /\ pp.TimeStep > 0
    /\ pp.Runs > 0
    /\ Abs(pp.Correlation) <= 1
    /\ pp.PolynomialOrder = BasisSize

(***************************************************************************)
(* Valuation of any ProjectProcess value, whatever its PolynomialOrder     *)
(***************************************************************************)
InitAnyOrder ==
    /\ pp \in {p \in ProjectProcess : p.TerminalMultiplier = 5}
    /\ seed \in Seeds
    /\ maxCalls = 1
    /\ rng = 1
    /\ fresh = FALSE
    /\ pc = "main"
    /\ calls = 0
    /\ startFresh = <<>>
    /\ outputs = <<>>
    /\ solver = "unknown"
    /\ Locals0

SpecAnyOrder == InitAnyOrder /\ [][Next]_vars

\* C5: with a non-positive time step, a non-positive run count, a correlation
\* outside [-1, 1] or a PolynomialOrder other than 9, the valuation stops with an
\* error before any path is simulated, and returns no project value.
C5_InvalidParametersRejected ==
    ~ValidParameters =>
        /\ pc \in {"main", "ready", "panic"}
        /\ Simulated = {}
        /\ outputs = <<>>

(***************************************************************************)
(* Repeated valuation: a driver that calls Lsm twice, with or without a    *)
(* rand.Seed in between                                                    *)
(***************************************************************************)
InitRepeat ==
    /\ pp \in {p \in ProjectProcess :
                  /\ p.PolynomialOrder = BasisSize
                  /\ p.TimeStep = 1
                  /\ p.TerminalMultiplier = 5
                  /\ p.Runs >= 1
                  /\ p.PatentLength >= 1}
    /\ seed \in Seeds
    /\ maxCalls = 2
    /\ rng = 1
    /\ fresh = FALSE
    /\ pc = "main"
    /\ calls = 0
    /\ startFresh = <<>>
    /\ outputs = <<>>
    /\ solver = "unknown"
    /\ Locals0

SpecRepeat == InitRepeat /\ [][Next]_vars

\* C6: two calls of Lsm with the same parameters, each entered with the generator in
\* the state rand.Seed(seed) puts it in, return the same value.
C6_Determinism ==
    \A i \in 1 .. Len(outputs) : \A j \in 1 .. Len(outputs) :
        (startFresh[i] /\ startFresh[j]) => outputs[i] = outputs[j]

\* two valuations over several periods, each entered right after rand.Seed, returned
C6_Witness ==
    /\ Len(outputs) = 2
    /\ startFresh[1]
    /\ startFresh[2]
    /\ numberOfPeriods >= 2
    /\ ~RIsZero(outputs[1])
    /\ outputs[2] = outputs[1]

====
